---- MODULE Spec2Model ----
(***************************************************************************)
(* The authenticated API client of the Commvault MCP server:               *)
(* CommvaultApiClient.request (gate check, header construction, attempt    *)
(* loop with exponential backoff, 401-triggered token refresh) together    *)
(* with AuthService (in-memory token pair mirrored to the keyring, and the *)
(* shared-secret gate) and OAuthService.                                   *)
(*                                                                         *)
(* Strings that the code inspects character by character (the inbound      *)
(* Authorization header, the stored server secret) are sequences of        *)
(* one-character strings.  Backend credentials are opaque to the client;   *)
(* the access token of generation g is <<"A", g>>, the refresh token of    *)
(* generation g is <<"R", g>>, and an absent value (Python None) is <<>>.  *)
(***************************************************************************)
EXTENDS Integers, Sequences, FiniteSets, TLC

VARIABLES
    workload,   \* which calls the environment makes (fixed by Init)
    env,        \* process environment: USE_OAUTH, MCP_TRANSPORT_MODE, ...
    config,     \* ConfigManager.load_config: how it ended and the ServerConfig
    tool,       \* the last get_job_detail invocation: its input and its result
    phase,      \* "startup" | "serving" | "exited"
    use_oauth,  \* CommvaultApiClient.use_oauth
    keyring,    \* credential store: access_token, refresh_token, server_secret
    tokens,     \* AuthService.__access_token / __refresh_token
    issued,     \* backend: generation of the newest pair it has issued
    refreshed,  \* the pair handed to set_tokens by the last refresh that returned True
    call        \* per thread: the request call in progress and its record

vars == <<workload, env, config, tool, phase, use_oauth, keyring, tokens, issued, refreshed, call>>

----------------------------------------------------------------------------
(* Bounds *)

\* Longest server secret / header remainder enumerated for the gate.
MaxLen == 3
\* Largest max_retries argument enumerated for request.
MaxBudget == 3
\* Generations of token pairs the backend issues on top of the initial one.
MaxRenew == 2

----------------------------------------------------------------------------
(* Values *)

Threads == {"t1", "t2"}

None == <<>>
AccessTok(g) == <<"A", g>>
RefreshTok(g) == <<"R", g>>
\* The empty string where a token is expected.
Empty == <<"", 0>>
\* Generation of a token; 0 for an absent one.
Gen(tok) == IF tok = None THEN 0 ELSE tok[2]

Alphabet == {"a", "A", " "}

RECURSIVE StringsOfLen(_)
StringsOfLen(n) ==
    IF n = 0 THEN {<<>>}
    ELSE {Append(s, c) : s \in StringsOfLen(n - 1), c \in Alphabet}

RECURSIVE StringsUpTo(_)
StringsUpTo(n) ==
    IF n = 0 THEN StringsOfLen(0) ELSE StringsOfLen(n) \cup StringsUpTo(n - 1)

Bearer == <<"B", "e", "a", "r", "e", "r", " ">>
bearer == <<"b", "e", "a", "r", "e", "r", " ">>

\* An optional string: request.headers.get(...) / keyring.get_password(...)
Absent == [present |-> FALSE, value |-> <<>>]
Some(s) == [present |-> TRUE, value |-> s]

----------------------------------------------------------------------------
(* Python string helpers used by is_client_token_valid *)

\* str.startswith
startswith(s, p) == Len(s) >= Len(p) /\ SubSeq(s, 1, Len(p)) = p

\* Index of the first occurrence of character c in s at or after i, else 0.
RECURSIVE Find(_, _, _)
Find(s, c, i) ==
    IF i > Len(s) THEN 0
    ELSE IF s[i] = c THEN i
    ELSE Find(s, c, i + 1)

\* str.split(c): the list of fields between occurrences of c.
RECURSIVE split(_, _)
split(s, c) ==
    LET i == Find(s, c, 1) IN
    IF i = 0 THEN <<s>>
    ELSE <<SubSeq(s, 1, i - 1)>> \o split(SubSeq(s, i + 1, Len(s)), c)

\* str.lower on the values USE_OAUTH takes here.
lower(s) == IF s = "True" THEN "true" ELSE s

----------------------------------------------------------------------------
(* Configuration (src/config.py, src/utils.py) *)

\* Python None where a string is expected: os.getenv of a variable that is
\* not set, a field of ServerConfig left at its default.
Unset == "<None>"

\* utils.get_env_var, lines 25-27: no value and no default raises ValueError.
env_missing(value, default) == value = Unset /\ default = Unset

\* utils.get_env_var, lines 25 and 28: the value, or the default.
get_env_var(value, default) == IF value = Unset THEN default ELSE value

Digits == {"0", "1", "2", "3", "4", "5", "6", "7", "8", "9"}
DigitValue ==
    ("0" :> 0) @@ ("1" :> 1) @@ ("2" :> 2) @@ ("3" :> 3) @@ ("4" :> 4) @@
    ("5" :> 5) @@ ("6" :> 6) @@ ("7" :> 7) @@ ("8" :> 8) @@ ("9" :> 9)

\* int(s) raises ValueError unless s is a decimal numeral (signs, blanks
\* and underscores are outside the values of MCP_PORT taken here).
int_raises(s) == s = <<>> \/ \E i \in 1 .. Len(s) : s[i] \notin Digits

\* int(s) of a decimal numeral.
RECURSIVE int(_)
int(s) ==
    IF s = <<>> THEN 0
    ELSE 10 * int(SubSeq(s, 1, Len(s) - 1)) + DigitValue[s[Len(s)]]

\* ServerConfig.port: Optional[int].
NoPort == [set |-> FALSE, n |-> 0]
PortOf(n) == [set |-> TRUE, n |-> n]

\* Truthiness of an Optional[str] and of an Optional[int] inside all([...]).
truthy(v) == v # Unset /\ v # ""
truthy_port(p) == p.set /\ p.n # 0

TransportModes == {"stdio", "streamable-http", "sse"}

\* ServerConfig(transport_mode=...) with every other field at its default.
ServerConfig(transport_mode) ==
    [transport_mode |-> transport_mode, host |-> Unset, port |-> NoPort,
     path |-> Unset, use_oauth |-> FALSE,
     oauth_authorization_endpoint |-> Unset, oauth_token_endpoint |-> Unset,
     oauth_client_id |-> Unset, oauth_client_secret |-> Unset,
     oauth_jwks_uri |-> Unset, oauth_required_scopes |-> <<>>,
     oauth_base_url |-> Unset]

\* Mutant: only the transport mode is validated.
post_init_raises_transport_only(cfg) == cfg.transport_mode \notin TransportModes

\* ServerConfig.__post_init__ raises ValueError.
post_init_raises(cfg) ==
    \/ cfg.transport_mode \notin TransportModes
    \/ /\ cfg.transport_mode # "stdio"
       /\ ~(truthy(cfg.host) /\ truthy_port(cfg.port) /\ truthy(cfg.path))
    \/ /\ cfg.use_oauth
       /\ ~(/\ truthy(cfg.oauth_authorization_endpoint)
            /\ truthy(cfg.oauth_token_endpoint)
            /\ truthy(cfg.oauth_client_id)
            /\ truthy(cfg.oauth_client_secret)
            /\ truthy(cfg.oauth_jwks_uri))

\* How load_config ended: `constructed` tells whether a ServerConfig came
\* out of __post_init__, `value` is that object.
NoConfig == <<>>
Unloaded == [state |-> "unloaded", constructed |-> FALSE, value |-> NoConfig]
Exited(constructed, value) ==
    [state |-> "exited", constructed |-> constructed, value |-> value]
Loaded(cfg) == [state |-> "loaded", constructed |-> TRUE, value |-> cfg]

\* Lines 77-97 and 101-109: the dataclass constructor runs __post_init__;
\* its ValueError ends in sys.exit(1), otherwise the object is returned.
construct(cfg) ==
    IF post_init_raises(cfg) THEN Exited(FALSE, NoConfig) ELSE Loaded(cfg)

\* ConfigManager.load_config on the environment e.
load_config(e) ==
    LET transport_mode == e.MCP_TRANSPORT_MODE IN
    IF env_missing(transport_mode, Unset)
    THEN Exited(FALSE, NoConfig)
    ELSE IF transport_mode # "stdio"
    THEN IF \/ env_missing(e.MCP_HOST, Unset)
            \/ ~e.MCP_PORT.present
            \/ int_raises(e.MCP_PORT.value)
            \/ env_missing(e.MCP_PATH, Unset)
         THEN Exited(FALSE, NoConfig)
         ELSE
            LET net == [ServerConfig(transport_mode) EXCEPT
                            !.host = e.MCP_HOST,
                            !.port = PortOf(int(e.MCP_PORT.value)),
                            !.path = e.MCP_PATH]
                oauth == lower(get_env_var(e.USE_OAUTH, "false")) = "true"
            IN  IF ~oauth
                THEN construct(net)
                ELSE IF \/ env_missing(e.OAUTH_AUTHORIZATION_ENDPOINT, Unset)
                        \/ env_missing(e.OAUTH_TOKEN_ENDPOINT, Unset)
                        \/ env_missing(e.OAUTH_CLIENT_ID, Unset)
                        \/ env_missing(e.OAUTH_CLIENT_SECRET, Unset)
                        \/ env_missing(e.OAUTH_JWKS_URI, Unset)
                        \/ ~e.OAUTH_REQUIRED_SCOPES.present
                        \/ env_missing(e.OAUTH_BASE_URL, Unset)
                THEN Exited(FALSE, NoConfig)
                ELSE construct(
                    [net EXCEPT
                        !.use_oauth = TRUE,
                        !.oauth_authorization_endpoint = e.OAUTH_AUTHORIZATION_ENDPOINT,
                        !.oauth_token_endpoint = e.OAUTH_TOKEN_ENDPOINT,
                        !.oauth_client_id = e.OAUTH_CLIENT_ID,
                        !.oauth_client_secret = e.OAUTH_CLIENT_SECRET,
                        !.oauth_jwks_uri = e.OAUTH_JWKS_URI,
                        !.oauth_required_scopes =
                            split(e.OAUTH_REQUIRED_SCOPES.value, ","),
                        !.oauth_base_url = e.OAUTH_BASE_URL])
    ELSE
        \* Line 99 constructs the object; line 101 then reads use_oauth,
        \* which this branch never bound: UnboundLocalError, caught by
        \* line 107, sys.exit(1).
        LET cfg == ServerConfig(transport_mode) IN
        IF post_init_raises(cfg)
        THEN Exited(FALSE, NoConfig)
        ELSE Exited(TRUE, cfg)

\* Values of the environment variables load_config reads.
OptionalText == {Unset, "", "x"}
ConfigEnvs ==
    [MCP_TRANSPORT_MODE : {Unset, "http"} \cup TransportModes,
     MCP_HOST : {Unset, "", "0.0.0.0"},
     MCP_PORT : {Absent, Some(<<>>), Some(<<"a">>), Some(<<"0">>),
                 Some(<<"8", "0">>)},
     MCP_PATH : {Unset, "", "/mcp"},
     USE_OAUTH : {Unset, "false", "true", "True"},
     OAUTH_AUTHORIZATION_ENDPOINT : OptionalText,
     OAUTH_TOKEN_ENDPOINT : OptionalText,
     OAUTH_CLIENT_ID : OptionalText,
     OAUTH_CLIENT_SECRET : OptionalText,
     OAUTH_JWKS_URI : OptionalText,
     OAUTH_REQUIRED_SCOPES : {Absent, Some(<<"a", ",", "b">>)},
     OAUTH_BASE_URL : {Unset, "x"}]

----------------------------------------------------------------------------
(* AuthService (src/auth_service.py) *)

\* hmac.compare_digest: constant-time equality of two strings.
compare_digest(a, b) == a = b

\* AuthService.is_client_token_valid, as a function of the inbound
\* Authorization header and the stored server_secret.
is_client_token_valid(auth_header, secret) ==
    IF ~auth_header.present THEN FALSE
    ELSE
        LET mcp_client_token ==
                IF startswith(auth_header.value, Bearer)
                THEN split(auth_header.value, " ")[2]
                ELSE auth_header.value
        IN  IF ~secret.present THEN FALSE
            ELSE compare_digest(mcp_client_token, secret.value)

\* AuthService.get_tokens: the in-memory pair.
get_tokens == tokens

\* Mutant: whatever the entry name, the value lands under access_token.
set_password_wrong_key(kr, name, value) == [kr EXCEPT !["access_token"] = value]

\* keyring.set_password(service, name, value) on the credential store.
set_password(kr, name, value) == [kr EXCEPT ![name] = value]

\* Mutant: the keyring is written, the in-memory access token is not.
assign_access_token_skipped(pair, access_token) == pair

\* The in-memory half of set_access_token / set_refresh_token.
assign_access_token(pair, access_token) == <<access_token, pair[2]>>
assign_refresh_token(pair, refresh_token) == <<pair[1], refresh_token>>

----------------------------------------------------------------------------
(* CommvaultApiClient helpers (src/cv_api_client.py) *)

JSON == "application/json"

\* dict.update: entries of b replace entries of a with the same key.
update(a, b) ==
    [k \in (DOMAIN a) \cup (DOMAIN b) |-> IF k \in DOMAIN b THEN b[k] ELSE a[k]]

\* Mutant: the defaults are merged over the caller's headers.
get_headers_defaults_last(oauth, auth_token, additional_headers) ==
    update(additional_headers,
           IF oauth
           THEN [Accept |-> JSON, Authorization |-> auth_token]
           ELSE [Accept |-> JSON, Authtoken |-> auth_token])

\* CommvaultApiClient._get_headers, given the first component returned by
\* auth_service.get_tokens().
get_headers(oauth, auth_token, additional_headers) ==
    LET headers ==
            IF oauth
            THEN [Accept |-> JSON, Authorization |-> auth_token]
            ELSE [Accept |-> JSON, Authtoken |-> auth_token]
    IN  update(headers, additional_headers)

\* request, lines 113-117: a dict body is JSON-encoded and gets a
\* Content-Type unless the caller set one.
serialize_headers(request_headers, data) ==
    IF data = "dict" /\ "Content-Type" \notin DOMAIN request_headers
    THEN update(request_headers, [x \in {"Content-Type"} |-> JSON])
    ELSE request_headers

\* requests.Response.raise_for_status: raises for 4xx and 5xx.
raises_for_status(status) == status >= 400

\* Mutant: linear instead of exponential backoff.
backoff_time_linear(retry_delay, retries) == retry_delay * retries

\* request, lines 160 and 173.
backoff_time(retry_delay, retries) == retry_delay * (2 ^ (retries - 1))

\* Mutant: the transport comparison inverted.
gate_applies_inverted(e) == e.USE_OAUTH # "true" /\ e.MCP_TRANSPORT_MODE = "stdio"

\* Mutant: the transport is not looked at.
gate_applies_any_transport(e) == e.USE_OAUTH # "true"

\* The condition of line 104 up to the call of is_client_token_valid.
gate_applies(e) == e.USE_OAUTH # "true" /\ e.MCP_TRANSPORT_MODE # "stdio"

\* Line 196: the mode the module-level client is constructed in.
client_use_oauth(e) == lower(e.USE_OAUTH) = "true"

----------------------------------------------------------------------------
(* Environment of the calls *)

\* Threads that issue request calls under each workload.
ActiveThreads(w) == IF w = "conc" THEN Threads ELSE {"t1"}

\* request's default for max_retries.
DefaultMaxRetries == 2

\* Values of the max_retries argument.
Budgets(w) ==
    IF w = "seq" THEN 0 .. MaxBudget
    ELSE IF w = "tool" THEN {DefaultMaxRetries}
    ELSE {0}

\* Values of the retry_delay argument (seconds).
Delays(w) == IF w = "seq" THEN {1, 3} ELSE {1}

\* Values of MCP_TRANSPORT_MODE.
Transports(w) ==
    IF w = "gate" THEN {"stdio", "streamable-http", "sse"}
    ELSE {"stdio", "streamable-http"}

\* Values stored under server_secret: setup.py stores only non-empty ones.
Secrets(w) ==
    IF w = "gate"
    THEN {Absent} \cup {Some(s) : s \in StringsUpTo(MaxLen) \ {<<>>}}
    ELSE {Absent, Some(<<"a">>)}

\* Values of the inbound Authorization header; a stdio server has no
\* inbound HTTP request at all.
InboundHeaders(w, e) ==
    IF e.MCP_TRANSPORT_MODE = "stdio" THEN {Absent}
    ELSE IF w = "gate"
    THEN {Absent}
         \cup {Some(s) : s \in StringsUpTo(MaxLen)}
         \cup {Some(Bearer \o s) : s \in StringsUpTo(MaxLen)}
         \cup {Some(bearer \o s) : s \in StringsUpTo(MaxLen)}
    ELSE {Absent, Some(Bearer \o <<"a">>), Some(Bearer \o <<"A">>)}

\* Values of the headers argument: None, a Content-Type, an Authtoken.
NoHeaders == <<>>
CallerHeaders(w) ==
    IF w = "hdr"
    THEN {NoHeaders,
          [x \in {"Content-Type"} |-> "text/plain"],
          [x \in {"Authtoken"} |-> <<"X", 0>>]}
    ELSE {NoHeaders}

\* Values of the data argument: None, a dict, a str.
Bodies(w) == IF w = "hdr" THEN {"none", "dict", "str"} ELSE {"none"}

\* What the backend answers to one attempt: a status with a JSON or a
\* non-JSON body, or no answer at all (status 0: connection error, timeout).
Responses ==
    {[status |-> 200, json |-> TRUE], [status |-> 200, json |-> FALSE],
     [status |-> 401, json |-> TRUE], [status |-> 500, json |-> TRUE],
     [status |-> 0, json |-> FALSE]}

\* What the renew endpoint answers: "ok" (a fresh pair), "no_access" /
\* "no_refresh" (success status, a field missing), "empty_access" /
\* "empty_refresh" (success status, a field that is the empty string),
\* "connection_error" (requests.post raises), "http_error" (an error
\* status), "not_json" (success status, a body that is not JSON).
RenewErrors == {"connection_error", "http_error", "not_json"}
RenewAnswers ==
    {"ok", "no_access", "no_refresh", "empty_access", "empty_refresh"}
        \cup RenewErrors

\* A keyring without entries.
EmptyKeyring ==
    [access_token |-> None, refresh_token |-> None, server_secret |-> Absent]

IdleCall ==
    [pc |-> "idle", max_retries |-> 0, retry_delay |-> 0, auth_header |-> Absent,
     headers |-> NoHeaders, data |-> "none", retries |-> 0,
     request_headers |-> NoHeaders, read |-> <<None, None>>,
     new |-> <<None, None>>, outcome |-> "none",
     \* the record of the call, for the properties
     gate |-> "none", tokens0 |-> <<None, None>>, keyring0 |-> EmptyKeyring,
     statuses |-> <<>>,
     sleeps |-> <<>>, sent |-> <<>>, nRefresh |-> 0, renews |-> <<>>,
     results |-> <<>>, storeFailed |-> FALSE]

----------------------------------------------------------------------------
(* Tool layer (src/tools/job_tools.py) *)

\* Values of the job_id argument of get_job_detail.
JobIds(w) == IF w = "tool" THEN {7, 99999999} ELSE {0}

\* What the JSON body of a Job/<id> answer can be: an object without a
\* "jobs" member, with an empty list, with one job, or not an object.
JobBodies == {"no_jobs_key", "empty_jobs", "one_job", "not_an_object"}

\* str(e) of the exceptions raised in the tool itself.
NoJobFound(job_id) == <<"No job found with ID: ", job_id>>
ErrNoGet == "object has no attribute 'get'"

\* What a tool invocation hands to the server: a value, a ToolError
\* object, or an exception that escaped.
ToolValue(v) == [kind |-> "value", error |-> "", value |-> v]
ToolError(message) == [kind |-> "ToolError", error |-> message, value |-> ""]
ToolRaised(message) == [kind |-> "raised", error |-> message, value |-> ""]

\* No invocation has ended yet.
NoTool(job_id) ==
    [job_id |-> job_id, outcome |-> "none", body |-> "none",
     result |-> [kind |-> "none", error |-> "", value |-> ""]]

\* Mutant: the handler re-raises.
tool_except_reraise(message) == ToolRaised(message)

\* get_job_detail, lines 39-41: except Exception as e: return
\* ToolError({"error": str(e)}).
tool_except(message) == ToolError(message)

\* get_job_detail, lines 32-41, given how commvault_api_client.get ended
\* and, when it returned a decoded body, what the body is.
get_job_detail(job_id, outcome, body) ==
    IF outcome = "json"
    THEN IF body = "not_an_object"
         THEN tool_except(ErrNoGet)
         ELSE IF body \in {"no_jobs_key", "empty_jobs"}
         THEN tool_except(NoJobFound(job_id))
         ELSE ToolValue("jobs_list[0]")
    ELSE IF outcome = "None"
    THEN tool_except(ErrNoGet)
    ELSE tool_except(outcome)

----------------------------------------------------------------------------
(* Initial states: before the module-level client is constructed *)

InitOf(w) ==
    /\ workload = w
    /\ env \in [USE_OAUTH : {"false", "true", "True"},
                MCP_TRANSPORT_MODE : Transports(w)]
    /\ config = Unloaded
    /\ tool \in {NoTool(j) : j \in JobIds(w)}
    /\ phase = "startup"
    /\ use_oauth = FALSE
    /\ keyring \in [access_token : {None, AccessTok(1)},
                    refresh_token : {None, RefreshTok(1)},
                    server_secret : Secrets(w)]
    /\ tokens = <<None, None>>
    /\ issued = 1
    /\ refreshed = <<None, None>>
    /\ call = [t \in Threads |-> IdleCall]

\* Environments for load_config: every variable it reads unset, empty or
\* set; the client is not constructed in this workload.
InitConfig ==
    /\ workload = "config"
    /\ env \in ConfigEnvs
    /\ config = Unloaded
    /\ tool = NoTool(0)
    /\ phase = "startup"
    /\ use_oauth = FALSE
    /\ keyring = [access_token |-> None, refresh_token |-> None,
                  server_secret |-> Absent]
    /\ tokens = <<None, None>>
    /\ issued = 1
    /\ refreshed = <<None, None>>
    /\ call = [t \in Threads |-> IdleCall]

Init == InitOf("seq")
InitConc == InitOf("conc")
InitHdr == InitOf("hdr")

----------------------------------------------------------------------------
(* Outcomes of a call: the value returned or the exception raised *)

ReturnedJson == "json"
ReturnedNone == "None"
ErrGate == "Invalid or missing token in request."
ErrRefresh == "Failed to refresh token. please create a new token update the keyring"
ErrHTTP == "HTTPError"
ErrTryLater == "Some issue occured. Please try again later."
ErrFormat == "Invalid response format from server"
ErrOAuthHeader == "Authentication validation failed. Please relogin and try again."
ErrAttribute == "AttributeError"
ErrNoRequest == "RuntimeError"

\* The call ends: it returns or raises `outcome`.
Finish(c, outcome) == [c EXCEPT !.pc = "done", !.outcome = outcome]

\* Line 120: the loop condition, evaluated on entry and after each
\* `continue`, sleep or handled exception.
loop(c) ==
    IF c.retries <= c.max_retries
    THEN [c EXCEPT !.pc = "attempt"]
    ELSE Finish(c, ReturnedNone)

\* Mutant: the budget test is off by one (>= for >).
retry_off_by_one(c, exhausted) ==
    LET retries == c.retries + 1 IN
    IF retries >= c.max_retries
    THEN Finish([c EXCEPT !.retries = retries], exhausted)
    ELSE loop([c EXCEPT !.retries = retries,
                        !.sleeps = Append(@, backoff_time(c.retry_delay, retries))])

\* Mutant: an exhausted budget raises nothing; the loop condition ends
\* the call.
retry_without_raise(c, exhausted) ==
    loop([c EXCEPT !.retries = @ + 1,
                   !.sleeps = Append(@, backoff_time(c.retry_delay, c.retries + 1))])

\* Lines 156-162 and 169-175: count the failure, give up when the budget
\* is exhausted, otherwise sleep and loop.
retry(c, exhausted) ==
    LET retries == c.retries + 1 IN
    IF retries > c.max_retries
    THEN Finish([c EXCEPT !.retries = retries], exhausted)
    ELSE loop([c EXCEPT !.retries = retries,
                        !.sleeps = Append(@, backoff_time(c.retry_delay, retries))])

\* Mutant: a failed refresh is counted and retried like a transient error.
refresh_failed_retry(c) == retry(c, ErrRefresh)

\* Mutant: the refresh error is raised whatever the mode of the client.
refresh_failed_any_mode(c) == Finish(c, ErrRefresh)

\* _refresh_access_token returned False: line 143 raises the HTTPError of
\* the 401 response, and lines 163-167 turn it into the refresh error.
refresh_failed(c) ==
    IF ~use_oauth THEN Finish(c, ErrRefresh) ELSE Finish(c, ErrHTTP)

\* Exceptions raised inside _refresh_access_token.
ExcRenew == "renew request failed"
ExcNoTokens == "No new tokens received"
ExcKeyring == "PasswordSetError"

\* Mutant: only the failures of the renew request are caught; a keyring
\* error escapes from _refresh_access_token and from request.
refresh_except_narrow(c, exc) ==
    IF exc = ExcKeyring
    THEN Finish(c, ExcKeyring)
    ELSE refresh_failed([c EXCEPT !.results = Append(@, FALSE)])

\* Lines 90-92: whatever was raised, _refresh_access_token returns False;
\* request then falls through to line 143.
refresh_except(c, exc) ==
    refresh_failed([c EXCEPT !.results = Append(@, FALSE)])

----------------------------------------------------------------------------
(* Construction of the module-level client *)

\* Mutant: only the access token is looked at.
tokens_missing_access_only(access_token, refresh_token) == access_token = None

\* AuthService.fetch_and_set_tokens, line 39: the condition of sys.exit(1).
tokens_missing(access_token, refresh_token) ==
    access_token = None \/ refresh_token = None

\* CommvaultApiClient.__init__ with AuthService.__init__ /
\* fetch_and_set_tokens for a non-OAuth client.
Startup ==
    /\ phase = "startup"
    /\ use_oauth' = client_use_oauth(env)
    /\ IF client_use_oauth(env)
       THEN phase' = "serving" /\ tokens' = tokens
       ELSE IF tokens_missing(keyring.access_token, keyring.refresh_token)
            THEN phase' = "exited" /\ tokens' = tokens
            ELSE /\ phase' = "serving"
                 /\ tokens' = <<keyring.access_token, keyring.refresh_token>>
    /\ UNCHANGED <<workload, env, config, tool, keyring, issued, refreshed, call>>

----------------------------------------------------------------------------
(* CommvaultApiClient.request *)

\* Lines 103-119: gate check, header construction, body serialization,
\* entry of the attempt loop.
request_entry(c) ==
    LET gated == gate_applies(env) IN
    IF gated /\ use_oauth
    THEN Finish([c EXCEPT !.gate = "error"], ErrAttribute)
    ELSE IF gated /\ ~is_client_token_valid(c.auth_header, keyring.server_secret)
    THEN Finish([c EXCEPT !.gate = "rejected"], ErrGate)
    ELSE
        LET g == [c EXCEPT !.gate = IF gated THEN "accepted" ELSE "skipped"] IN
        IF use_oauth /\ env.MCP_TRANSPORT_MODE = "stdio"
        THEN Finish(g, ErrNoRequest)
        ELSE IF use_oauth /\ ~c.auth_header.present
        THEN Finish(g, ErrOAuthHeader)
        ELSE
            LET auth_token == IF use_oauth THEN c.auth_header.value
                              ELSE get_tokens[1]
                request_headers == get_headers(use_oauth, auth_token, c.headers)
            IN  loop([g EXCEPT !.request_headers =
                                   serialize_headers(request_headers, c.data),
                               !.retries = 0])

Request(t, max_retries, retry_delay, auth_header, headers, data) ==
    /\ phase = "serving"
    /\ t \in ActiveThreads(workload)
    /\ call[t].pc = "idle"
    /\ call' = [call EXCEPT ![t] =
            request_entry([IdleCall EXCEPT !.max_retries = max_retries,
                                           !.retry_delay = retry_delay,
                                           !.auth_header = auth_header,
                                           !.headers = headers,
                                           !.data = data,
                                           !.tokens0 = tokens,
                                           !.keyring0 = keyring])]
    /\ UNCHANGED <<workload, env, config, tool, phase, use_oauth, keyring, tokens, issued, refreshed>>

\* Mutant: a network failure ends the call at once.
on_request_exception_unretried(a) == Finish(a, ErrTryLater)

\* Lines 168-175: requests.exceptions.RequestException (connection error,
\* timeout).
on_request_exception(a) == retry(a, ErrTryLater)

\* Mutant: every error status starts a refresh.
on_http_error_refreshes(a, status) ==
    [a EXCEPT !.pc = "refresh", !.nRefresh = @ + 1]

\* Lines 153-167: requests.exceptions.HTTPError raised by line 143.
on_http_error(a, status) ==
    IF status # 401 THEN retry(a, ErrHTTP) ELSE refresh_failed(a)

\* Mutant: a malformed body is retried like a transient failure.
on_invalid_json_retried(a) == retry(a, ErrFormat)

\* Lines 149-151 and 177-179: the body of a success response is not JSON.
on_invalid_json(a) == Finish(a, ErrFormat)

\* Lines 121-179 for one response of the backend.
attempt(c, resp) ==
    LET a == [c EXCEPT !.statuses = Append(@, resp),
                       !.sent = Append(@, c.request_headers)]
    IN  IF resp.status = 0
        THEN on_request_exception(a)
        ELSE IF resp.status = 401 /\ ~use_oauth
        THEN [a EXCEPT !.pc = "refresh", !.nRefresh = @ + 1]
        ELSE IF raises_for_status(resp.status)
        THEN on_http_error(a, resp.status)
        ELSE IF resp.json
        THEN Finish(a, ReturnedJson)
        ELSE on_invalid_json(a)

Attempt(t, resp) ==
    /\ call[t].pc = "attempt"
    /\ call' = [call EXCEPT ![t] = attempt(call[t], resp)]
    /\ UNCHANGED <<workload, env, config, tool, phase, use_oauth, keyring, tokens, issued, refreshed>>

----------------------------------------------------------------------------
(* CommvaultApiClient._refresh_access_token *)

\* Line 60: read the pair that goes into the renew payload.
RefreshRead(t) ==
    /\ call[t].pc = "refresh"
    /\ call' = [call EXCEPT ![t] = [@ EXCEPT !.pc = "renew", !.read = get_tokens]]
    /\ UNCHANGED <<workload, env, config, tool, phase, use_oauth, keyring, tokens, issued, refreshed>>

\* The pair a renew response carries: a fresh generation, or one with a
\* field missing or empty.
renew_pair(answer, g) ==
    <<IF answer = "no_access" THEN None
      ELSE IF answer = "empty_access" THEN Empty
      ELSE AccessTok(g),
      IF answer = "no_refresh" THEN None
      ELSE IF answer = "empty_refresh" THEN Empty
      ELSE RefreshTok(g)>>

\* Mutant: only a missing field counts, an empty one is stored.
falsy_none_only(v) == v = None

\* Python truthiness of a token value as tested by line 83.
falsy(v) == v = None \/ v = Empty

\* Lines 72-84: the renew endpoint answers; a connection error (line 72),
\* an error status (line 79), a body that is not JSON (line 81) or a
\* missing or empty field (lines 83-84) raises inside the try block.
RenewRespond(t, answer) ==
    /\ call[t].pc = "renew"
    /\ answer = "ok" => issued < 1 + MaxRenew
    /\ LET c == [call[t] EXCEPT !.renews = Append(@, answer)]
           new == renew_pair(answer, issued + 1)
       IN  IF answer \in RenewErrors
           THEN /\ call' = [call EXCEPT ![t] = refresh_except(c, ExcRenew)]
                /\ issued' = issued
           ELSE IF falsy(new[1]) \/ falsy(new[2])
           THEN /\ call' = [call EXCEPT ![t] = refresh_except(c, ExcNoTokens)]
                /\ issued' = issued
           ELSE /\ call' = [call EXCEPT ![t] =
                        [c EXCEPT !.pc = "set_access", !.new = new]]
                /\ issued' = issued + 1
    /\ UNCHANGED <<workload, env, config, tool, phase, use_oauth, keyring, tokens, refreshed>>

\* AuthService.set_access_token, first statement: the keyring write, which
\* may raise (the refresh then returns False).
SetAccessKeyring(t, ok) ==
    /\ call[t].pc = "set_access"
    /\ IF ok
       THEN /\ keyring' = set_password(keyring, "access_token", call[t].new[1])
            /\ call' = [call EXCEPT ![t] = [@ EXCEPT !.pc = "mem_access"]]
       ELSE /\ keyring' = keyring
            /\ call' = [call EXCEPT ![t] =
                    refresh_except([@ EXCEPT !.storeFailed = TRUE], ExcKeyring)]
    /\ UNCHANGED <<workload, env, config, tool, phase, use_oauth, tokens, issued, refreshed>>

\* AuthService.set_access_token, second statement.
SetAccessMem(t) ==
    /\ call[t].pc = "mem_access"
    /\ tokens' = assign_access_token(tokens, call[t].new[1])
    /\ call' = [call EXCEPT ![t] = [@ EXCEPT !.pc = "set_refresh"]]
    /\ UNCHANGED <<workload, env, config, tool, phase, use_oauth, keyring, issued, refreshed>>

\* AuthService.set_refresh_token, first statement.
SetRefreshKeyring(t, ok) ==
    /\ call[t].pc = "set_refresh"
    /\ IF ok
       THEN /\ keyring' = set_password(keyring, "refresh_token", call[t].new[2])
            /\ call' = [call EXCEPT ![t] = [@ EXCEPT !.pc = "mem_refresh"]]
       ELSE /\ keyring' = keyring
            /\ call' = [call EXCEPT ![t] =
                    refresh_except([@ EXCEPT !.storeFailed = TRUE], ExcKeyring)]
    /\ UNCHANGED <<workload, env, config, tool, phase, use_oauth, tokens, issued, refreshed>>

\* AuthService.set_refresh_token, second statement; set_tokens and the
\* refresh return (True).
SetRefreshMem(t) ==
    /\ call[t].pc = "mem_refresh"
    /\ tokens' = assign_refresh_token(tokens, call[t].new[2])
    /\ refreshed' = call[t].new
    /\ call' = [call EXCEPT ![t] =
            [@ EXCEPT !.pc = "rebuild", !.results = Append(@, TRUE)]]
    /\ UNCHANGED <<workload, env, config, tool, phase, use_oauth, keyring, issued>>

\* Mutant: the loop continues with the headers of the failed attempt.
rebuild_stale(c) == loop(c)

\* Mutant: the re-issue after a refresh takes a retry slot.
rebuild_counts_retry(c) ==
    loop([c EXCEPT !.request_headers =
                       get_headers(use_oauth, get_tokens[1], c.headers),
                   !.retries = @ + 1])

\* Lines 136-140: rebuild the headers from the current tokens and continue.
rebuild(c) ==
    loop([c EXCEPT !.request_headers =
                       get_headers(use_oauth, get_tokens[1], c.headers)])

Rebuild(t) ==
    /\ call[t].pc = "rebuild"
    /\ call' = [call EXCEPT ![t] = rebuild(call[t])]
    /\ UNCHANGED <<workload, env, config, tool, phase, use_oauth, keyring, tokens, issued, refreshed>>

\* The call has returned or raised: its frame is gone.
Return(t) ==
    /\ call[t].pc = "done"
    /\ call' = [call EXCEPT ![t] = IdleCall]
    /\ UNCHANGED <<workload, env, config, tool, phase, use_oauth, keyring, tokens, issued, refreshed>>

----------------------------------------------------------------------------
(* Specifications *)

Next ==
    \/ Startup
    \/ \E t \in Threads :
         \E max_retries \in Budgets(workload), retry_delay \in Delays(workload),
            auth_header \in InboundHeaders(workload, env),
            headers \in CallerHeaders(workload), data \in Bodies(workload) :
              Request(t, max_retries, retry_delay, auth_header, headers, data)
    \/ \E t \in Threads, resp \in Responses : Attempt(t, resp)
    \/ \E t \in Threads : RefreshRead(t)
    \/ \E t \in Threads, answer \in RenewAnswers : RenewRespond(t, answer)
    \/ \E t \in Threads, ok \in BOOLEAN : SetAccessKeyring(t, ok)
    \/ \E t \in Threads : SetAccessMem(t)
    \/ \E t \in Threads, ok \in BOOLEAN : SetRefreshKeyring(t, ok)
    \/ \E t \in Threads : SetRefreshMem(t)
    \/ \E t \in Threads : Rebuild(t)
    \/ \E t \in Threads : Return(t)

\* One thread issues calls one after the other.
Spec == Init /\ [][Next]_vars

\* Two threads issue calls concurrently.
SpecConc == InitConc /\ [][Next]_vars

\* One thread issues single-attempt calls with every kind of caller
\* headers and body.
SpecHdr == InitHdr /\ [][Next]_vars

\* ConfigManager.load_config, once, on every environment of ConfigEnvs.
LoadConfig ==
    /\ workload = "config"
    /\ config.state = "unloaded"
    /\ config' = load_config(env)
    /\ UNCHANGED <<workload, env, tool, phase, use_oauth, keyring, tokens,
                   issued, refreshed, call>>

NextConfig == LoadConfig

\* get_job_detail returns to the server: commvault_api_client.get has
\* returned or raised, and lines 34-41 run on what it handed back.
GetJobDetailReturn(t, body) ==
    /\ workload = "tool"
    /\ call[t].pc = "done"
    /\ body = "none" <=> call[t].outcome # ReturnedJson
    /\ tool' = [tool EXCEPT
                    !.outcome = call[t].outcome,
                    !.body = body,
                    !.result = get_job_detail(tool.job_id, call[t].outcome, body)]
    /\ call' = [call EXCEPT ![t] = IdleCall]
    /\ UNCHANGED <<workload, env, config, phase, use_oauth, keyring, tokens,
                   issued, refreshed>>

\* One thread serves get_job_detail invocations one after the other; each
\* calls commvault_api_client.get with request's default arguments.
InitTool == InitOf("tool")

NextTool ==
    \/ Startup
    \/ \E max_retries \in Budgets(workload), retry_delay \in Delays(workload),
          auth_header \in InboundHeaders(workload, env) :
            Request("t1", max_retries, retry_delay, auth_header, NoHeaders, "none")
    \/ \E resp \in Responses : Attempt("t1", resp)
    \/ RefreshRead("t1")
    \/ \E answer \in RenewAnswers : RenewRespond("t1", answer)
    \/ \E ok \in BOOLEAN : SetAccessKeyring("t1", ok)
    \/ SetAccessMem("t1")
    \/ \E ok \in BOOLEAN : SetRefreshKeyring("t1", ok)
    \/ SetRefreshMem("t1")
    \/ Rebuild("t1")
    \/ \E body \in JobBodies \cup {"none"} : GetJobDetailReturn("t1", body)

SpecTool == InitTool /\ [][NextTool]_vars

SpecConfig == InitConfig /\ [][NextConfig]_vars

\* The shared-secret gate on every header and secret up to MaxLen: the
\* entry of request, which evaluates it.
InitGate == InitOf("gate")

NextGate ==
    \/ Startup
    \/ \E auth_header \in InboundHeaders(workload, env) :
          Request("t1", 0, 1, auth_header, NoHeaders, "none")
    \/ Return("t1")

SpecGate == InitGate /\ [][NextGate]_vars

----------------------------------------------------------------------------
(* Vocabulary of the properties *)

Ok200 == [status |-> 200, json |-> TRUE]
Unauthorized == [status |-> 401, json |-> TRUE]
ServerError == [status |-> 500, json |-> TRUE]

IsPrefix(p, s) == Len(p) <= Len(s) /\ SubSeq(s, 1, Len(p)) = p

\* n copies of x.
Repeat(x, n) == [i \in 1 .. n |-> x]

\* Every answer of the backend so far had this status.
AllStatus(c, st) == \A i \in 1 .. Len(c.statuses) : c.statuses[i].status = st

\* Every renew the call asked for succeeded and every keyring write worked.
RefreshAlwaysSucceeds(c) ==
    /\ \A i \in 1 .. Len(c.renews) : c.renews[i] = "ok"
    /\ ~c.storeFailed

Done(c) == c.pc = "done"
Attempted(c) == Len(c.statuses) >= 1

\* Section 7 of the specification: what counts as the transient-backend
\* error surfaced after the retry budget is exhausted.
TransientBackendErrors == {ErrHTTP, ErrTryLater}

----------------------------------------------------------------------------
(* Properties *)

\* C1: non-OAuth client, backend answers every attempt with 401, every
\* refresh succeeds: a single call performs at most one refresh.
C1_AtMostOneRefresh ==
    \A t \in Threads :
        LET c == call[t] IN
        (~use_oauth /\ AllStatus(c, 401) /\ RefreshAlwaysSucceeds(c))
            => c.nRefresh <= 1

\* C2: non-OAuth client, backend answers 401 and then a success status,
\* the renew endpoint succeeds: the call returns the decoded body after
\* exactly one refresh and the auth service holds the renewed pair.
C2_RefreshOnceThenSuccess ==
    \A t \in Threads :
        LET c == call[t] IN
        (/\ ~use_oauth /\ Done(c) /\ Attempted(c)
         /\ IsPrefix(c.statuses, <<Unauthorized, Ok200>>)
         /\ RefreshAlwaysSucceeds(c))
            => /\ c.statuses = <<Unauthorized, Ok200>>
               /\ c.outcome = ReturnedJson
               /\ c.nRefresh = 1
               /\ c.renews = <<"ok">>
               /\ c.new = <<AccessTok(issued), RefreshTok(issued)>>
               /\ get_tokens = c.new
               /\ get_tokens # c.tokens0

C2_Witness ==
    \E t \in Threads :
        /\ Done(call[t]) /\ ~use_oauth
        /\ call[t].statuses = <<Unauthorized, Ok200>>
        /\ call[t].renews = <<"ok">>
        /\ call[t].outcome = ReturnedJson

\* The shared-secret gate turns the call down.
GateRejects(c) ==
    /\ c.pc # "idle"
    /\ ~use_oauth
    /\ env.MCP_TRANSPORT_MODE # "stdio"
    /\ ~is_client_token_valid(c.auth_header, keyring.server_secret)

\* C3: when the shared-secret gate rejects the call (non-OAuth client,
\* transport other than stdio, is_client_token_valid false) the call raises
\* the gate error with no attempt, no refresh, no sleep, tokens untouched.
C3_GateRejectsBeforeBackend ==
    \A t \in Threads :
        LET c == call[t] IN
        GateRejects(c)
            => /\ Done(c) /\ c.outcome = ErrGate
               /\ c.statuses = <<>> /\ c.sent = <<>>
               /\ c.nRefresh = 0 /\ c.renews = <<>>
               /\ c.sleeps = <<>>
               /\ get_tokens = c.tokens0
               /\ keyring.access_token = c.tokens0[1]
               /\ keyring.refresh_token = c.tokens0[2]

C3_Witness ==
    \E t \in Threads :
        /\ GateRejects(call[t])
        /\ call[t].auth_header = Some(Bearer \o <<"A">>)
        /\ keyring.server_secret = Some(<<"a">>)
        /\ call[t].outcome = ErrGate

\* C4: backend answers every attempt with 500: exactly max_retries + 1
\* attempts and max_retries sleeps, then the transient-backend error; no
\* attempt after the budget is exhausted.
C4_Always500 ==
    \A t \in Threads :
        LET c == call[t] IN
        AllStatus(c, 500)
            => /\ Len(c.statuses) <= c.max_retries + 1
               /\ (c.pc = "attempt" => Len(c.statuses) <= c.max_retries)
               /\ (Done(c) /\ Attempted(c))
                    => /\ Len(c.statuses) = c.max_retries + 1
                       /\ Len(c.sent) = c.max_retries + 1
                       /\ Len(c.sleeps) = c.max_retries
                       /\ c.outcome \in TransientBackendErrors
                       /\ c.outcome = ErrHTTP

C4_Witness ==
    \E t \in Threads :
        /\ Done(call[t]) /\ call[t].max_retries = DefaultMaxRetries
        /\ call[t].statuses = Repeat(ServerError, 3)
        /\ call[t].outcome = ErrHTTP

\* C5: backend answers 500 to the first max_retries attempts and then
\* succeeds: the call returns the body on attempt max_retries + 1 after
\* max_retries sleeps, sleep k being retry_delay * 2^(k-1), each twice the
\* previous one.
C5_BackoffThenSuccess ==
    \A t \in Threads :
        LET c == call[t]
            scenario == Repeat(ServerError, c.max_retries) \o <<Ok200>>
        IN
        (Done(c) /\ Attempted(c) /\ IsPrefix(c.statuses, scenario))
            => /\ c.statuses = scenario
               /\ c.outcome = ReturnedJson
               /\ Len(c.sleeps) = c.max_retries
               /\ \A k \in 1 .. c.max_retries :
                      c.sleeps[k] = c.retry_delay * 2 ^ (k - 1)
               /\ \A k \in 2 .. c.max_retries :
                      c.sleeps[k] = 2 * c.sleeps[k - 1]

C5_Witness ==
    \E t \in Threads :
        /\ Done(call[t]) /\ call[t].max_retries = 3 /\ call[t].retry_delay = 3
        /\ call[t].statuses = <<ServerError, ServerError, ServerError, Ok200>>
        /\ call[t].sleeps = <<3, 6, 12>>
        /\ call[t].outcome = ReturnedJson

\* The thread is between reading the pair and finishing set_tokens.
InRefresh(c) ==
    c.pc \in {"renew", "set_access", "mem_access", "set_refresh", "mem_refresh"}

\* The thread is about to write a token older than the one in memory.
StaleWrite(c) ==
    \/ c.pc = "mem_access" /\ Gen(c.new[1]) < Gen(tokens[1])
    \/ c.pc = "mem_refresh" /\ Gen(c.new[2]) < Gen(tokens[2])

\* C6: concurrent refreshes form a critical section (read pair -> call
\* renew endpoint -> write pair): two never interleave, and an older renew
\* response never overwrites the pair written by a newer refresh.
C6_RefreshCriticalSection ==
    /\ \A t, u \in Threads :
           (t # u) => ~(InRefresh(call[t]) /\ InRefresh(call[u]))
    /\ \A t \in Threads : ~StaleWrite(call[t])

\* The value with one leading "Bearer " removed, if it has one.
StripBearer(v) ==
    IF startswith(v, Bearer) THEN SubSeq(v, Len(Bearer) + 1, Len(v)) ELSE v

GateShouldAccept(auth_header, secret) ==
    /\ auth_header.present
    /\ secret.present
    /\ StripBearer(auth_header.value) = secret.value

\* C7: the gate accepts iff the presented token, the Authorization value
\* with at most one leading "Bearer " removed and nothing else cut off,
\* equals the stored secret exactly; no header or no secret rejects.
C7_GateAcceptsIffEqual ==
    \A t \in Threads :
        LET c == call[t] IN
        c.gate \in {"accepted", "rejected"}
            => ((c.gate = "accepted")
                    <=> GateShouldAccept(c.auth_header, keyring.server_secret))

\* C8: with the stdio transport the gate is never evaluated, and a call of
\* a non-OAuth client that carries no Authorization header goes on to its
\* backend attempt.
C8_StdioSkipsGate ==
    \A t \in Threads :
        LET c == call[t] IN
        (c.pc # "idle" /\ env.MCP_TRANSPORT_MODE = "stdio")
            => /\ c.gate = "skipped"
               /\ c.outcome \notin {ErrGate, ErrAttribute}
               /\ ~use_oauth =>
                    /\ ~c.auth_header.present
                    /\ c.pc = "attempt" \/ Attempted(c)

C8_Witness ==
    \E t \in Threads :
        /\ env.MCP_TRANSPORT_MODE = "stdio" /\ ~use_oauth
        /\ ~call[t].auth_header.present
        /\ keyring.server_secret = Absent
        /\ Len(call[t].sent) = 1

\* C9: once set_tokens(a, r) has completed, get_tokens() is (a, r) and the
\* credential store holds a under access_token and r under refresh_token.
C9_SetThenGet ==
    \A t \in Threads :
        LET c == call[t] IN
        c.pc = "rebuild"
            => /\ get_tokens = <<c.new[1], c.new[2]>>
               /\ keyring.access_token = c.new[1]
               /\ keyring.refresh_token = c.new[2]
               /\ c.new[1] # c.new[2]

C9_Witness ==
    \E t \in Threads :
        /\ call[t].pc = "rebuild"
        /\ call[t].new = <<AccessTok(3), RefreshTok(3)>>
        /\ call[t].read = <<AccessTok(2), RefreshTok(2)>>

\* The call's Authtoken header is the client's own.
DefaultAuthtoken(c) == ~use_oauth /\ "Authtoken" \notin DOMAIN c.headers

\* C10: after a successful refresh from (A1, R1) to (A2, R2), get_tokens()
\* is (A2, R2), and every attempt whose headers are built afterwards (the
\* re-issued attempt of this call, the attempts of later calls) carries
\* Authtoken = A2 and not A1, for calls that pass no Authtoken of their own.
C10_NewTokenUsedAfterRefresh ==
    \A t \in Threads :
        LET c == call[t] IN
        DefaultAuthtoken(c) =>
            /\ c.pc = "rebuild"
                   => /\ get_tokens = c.new
                      /\ Gen(c.new[1]) > Gen(c.read[1])
            /\ c.pc = "attempt" => c.request_headers["Authtoken"] = get_tokens[1]
            /\ \A i \in 2 .. Len(c.sent) :
                   c.statuses[i - 1].status = 401
                       => /\ c.sent[i]["Authtoken"] # c.sent[i - 1]["Authtoken"]
                          /\ Gen(c.sent[i]["Authtoken"]) > Gen(c.sent[i - 1]["Authtoken"])
            /\ c.nRefresh = 0
                   => \A i \in 1 .. Len(c.sent) :
                          c.sent[i]["Authtoken"] = get_tokens[1]

\* A later call sends the refreshed token; the call that refreshed
\* re-issues with it.
C10_Witness ==
    \E t \in Threads :
        LET c == call[t] IN
        /\ refreshed = <<AccessTok(2), RefreshTok(2)>>
        /\ DefaultAuthtoken(c)
        /\ c.nRefresh = 0
        /\ c.tokens0 = refreshed
        /\ c.sent # <<>>
        /\ c.sent[1]["Authtoken"] = AccessTok(2)

\* The last _refresh_access_token of the call returned False.
RefreshFailed(c) == c.results # <<>> /\ ~c.results[Len(c.results)]

\* How many of the answers so far were failures that the retry policy
\* counts (an error status other than 401, or a network failure).
RECURSIVE CountRetryable(_)
CountRetryable(statuses) ==
    IF statuses = <<>> THEN 0
    ELSE LET last == statuses[Len(statuses)]
             rest == SubSeq(statuses, 1, Len(statuses) - 1)
         IN  CountRetryable(rest)
                 + (IF last.status = 0 \/ (last.status >= 400 /\ last.status # 401)
                    THEN 1 ELSE 0)

\* C11: for a non-OAuth client, once an attempt was answered 401 and the
\* refresh failed, the call is over with the token-refresh-failed error: the
\* 401 is the last answer, one refresh was asked per 401, the failure added
\* nothing to the retry counter and no sleep, whatever budget is left.
C11_RefreshFailureIsFinal ==
    \A t \in Threads :
        LET c == call[t] IN
        (~use_oauth /\ RefreshFailed(c))
            => /\ Done(c)
               /\ c.outcome = ErrRefresh
               /\ c.statuses[Len(c.statuses)].status = 401
               /\ Len(c.sent) = Len(c.statuses)
               /\ c.retries = CountRetryable(c.statuses)
               /\ Len(c.sleeps) = c.retries
               /\ c.retries <= c.max_retries

\* The refresh fails on the first answer with the whole budget left.
C11_Witness ==
    \E t \in Threads :
        LET c == call[t] IN
        /\ ~use_oauth /\ RefreshFailed(c)
        /\ c.max_retries = MaxBudget
        /\ c.retries = 0
        /\ c.statuses = <<Unauthorized>>
        /\ c.outcome = ErrRefresh

\* C12: for an OAuth client a 401 answer ends the call: it is the last
\* answer, no refresh was asked, it added nothing to the retry counter and
\* no sleep, and the outcome is the HTTP error of that response.
C12_OAuth401IsFinal ==
    \A t \in Threads :
        LET c == call[t] IN
        use_oauth =>
            /\ c.nRefresh = 0 /\ c.renews = <<>> /\ c.results = <<>>
            /\ \A i \in 1 .. Len(c.statuses) :
                   c.statuses[i].status = 401
                       => /\ i = Len(c.statuses)
                          /\ Done(c)
                          /\ c.outcome = ErrHTTP
                          /\ c.retries = CountRetryable(c.statuses)
                          /\ Len(c.sleeps) = c.retries
                          /\ c.retries <= c.max_retries

\* An OAuth call answered 500 then 401, with budget left.
C12_Witness ==
    \E t \in Threads :
        LET c == call[t] IN
        /\ use_oauth
        /\ c.max_retries = MaxBudget
        /\ c.statuses = <<ServerError, Unauthorized>>
        /\ c.outcome = ErrHTTP
        /\ c.retries = 1

\* The refresh of the call is between its first and last statement.
Refreshing(c) ==
    c.pc \in {"refresh", "renew", "set_access", "mem_access", "set_refresh",
              "mem_refresh"}

\* What request can hand to its caller.
RequestOutcomes ==
    {ReturnedJson, ReturnedNone, ErrGate, ErrRefresh, ErrHTTP, ErrTryLater,
     ErrFormat, ErrOAuthHeader, ErrAttribute, ErrNoRequest}

\* C13: every _refresh_access_token that was started and is over returned
\* a boolean and raised nothing: False for every renew answer other than a
\* fresh pair and for a failed keyring write, True only after set_tokens
\* completed, with the new pair in memory and in the keyring.
C13_RefreshReturnsBoolean ==
    \A t \in Threads :
        LET c == call[t] IN
        /\ Len(c.results) = (IF Refreshing(c) THEN c.nRefresh - 1 ELSE c.nRefresh)
        /\ Done(c) => c.outcome \in RequestOutcomes
        /\ \A i \in 1 .. Len(c.results) :
               /\ c.renews[i] # "ok" => ~c.results[i]
               /\ c.results[i] => c.renews[i] = "ok"
               /\ c.results[i] <=> (i < Len(c.results) \/ ~RefreshFailed(c))
        /\ RefreshFailed(c)
               => \/ c.renews[Len(c.renews)] # "ok"
                  \/ c.storeFailed
        /\ c.storeFailed => RefreshFailed(c) /\ c.renews[Len(c.renews)] = "ok"
        /\ c.pc = "rebuild"
               => /\ c.results[Len(c.results)]
                  /\ get_tokens = c.new
                  /\ <<keyring.access_token, keyring.refresh_token>> = c.new

\* A refresh returned True, and the next one returned False because the
\* keyring write of the refresh token raised.
C13_Witness ==
    /\ \E t \in Threads :
           LET c == call[t] IN
           /\ c.results = <<TRUE, FALSE>>
           /\ c.storeFailed
           /\ c.outcome = ErrRefresh
    /\ tokens = <<AccessTok(3), RefreshTok(2)>>

\* Renew answers with a success status and a token field missing or empty.
IncompleteAnswers == {"no_access", "no_refresh", "empty_access", "empty_refresh"}

StoredPair == <<keyring.access_token, keyring.refresh_token>>

\* C14: when the renew endpoint answers with a success status and a pair
\* that lacks a field or has an empty one, the refresh has failed, no
\* keyring write was tried, and the pair in memory and the pair in the
\* keyring are the pair read before the renew request.
C14_IncompletePairChangesNothing ==
    \A t \in Threads :
        LET c == call[t] IN
        (c.renews # <<>> /\ c.renews[Len(c.renews)] \in IncompleteAnswers)
            => /\ Done(c)
               /\ RefreshFailed(c)
               /\ Len(c.results) = Len(c.renews)
               /\ ~c.storeFailed
               /\ get_tokens = c.read
               /\ StoredPair = c.read
               /\ ~falsy(get_tokens[1]) /\ ~falsy(get_tokens[2])

\* After one good refresh, the next renew answer has an empty refreshToken.
C14_Witness ==
    \E t \in Threads :
        LET c == call[t] IN
        /\ c.renews = <<"ok", "empty_refresh">>
        /\ c.read = <<AccessTok(2), RefreshTok(2)>>
        /\ get_tokens = c.read
        /\ c.outcome = ErrRefresh

NetworkError == [status |-> 0, json |-> FALSE]

\* Every answer so far was a failure the retry policy counts.
AllRetryable(c) == CountRetryable(c.statuses) = Len(c.statuses)

\* C15: a network failure is counted and slept on exactly as an error
\* status other than 401 (failure k is followed by a sleep of
\* retry_delay * 2^(k-1) while the budget lasts, whichever of the two it
\* was), and a call whose max_retries + 1 attempts all failed at network
\* level ends with the try-again-later error, not with the exception of
\* the transport.
C15_NetworkFailuresRetried ==
    \A t \in Threads :
        LET c == call[t] IN
        /\ AllRetryable(c)
               => /\ c.retries = Len(c.statuses)
                  /\ Len(c.statuses) <= c.max_retries + 1
                  /\ Len(c.sleeps) = (IF Done(c) /\ Attempted(c)
                                      THEN c.max_retries ELSE Len(c.statuses))
                  /\ \A k \in 1 .. Len(c.sleeps) :
                         c.sleeps[k] = c.retry_delay * 2 ^ (k - 1)
        /\ (AllStatus(c, 0) /\ Done(c) /\ Attempted(c))
               => /\ Len(c.statuses) = c.max_retries + 1
                  /\ Len(c.sent) = c.max_retries + 1
                  /\ c.outcome = ErrTryLater
        /\ (Done(c) /\ Attempted(c) /\ c.statuses[Len(c.statuses)].status = 0)
               => c.outcome = ErrTryLater

\* Three network failures exhaust a budget of two.
C15_Witness ==
    \E t \in Threads :
        LET c == call[t] IN
        /\ Done(c) /\ c.max_retries = DefaultMaxRetries /\ c.retry_delay = 3
        /\ c.statuses = Repeat(NetworkError, 3)
        /\ c.sleeps = <<3, 6>>
        /\ c.outcome = ErrTryLater

NotJson200 == [status |-> 200, json |-> FALSE]

\* C16: a success status with a body that is not JSON ends the call with
\* the invalid-response-format error: it is the last answer, and it added
\* nothing to the retry counter and no sleep, whatever budget is left.
C16_InvalidJsonIsFinal ==
    \A t \in Threads :
        LET c == call[t] IN
        \A i \in 1 .. Len(c.statuses) :
            c.statuses[i] = NotJson200
                => /\ i = Len(c.statuses)
                   /\ Len(c.sent) = i
                   /\ Done(c)
                   /\ c.outcome = ErrFormat
                   /\ c.retries = CountRetryable(c.statuses)
                   /\ Len(c.sleeps) = c.retries
                   /\ c.retries <= c.max_retries

\* The first answer is not JSON and the whole budget is left.
C16_Witness ==
    \E t \in Threads :
        LET c == call[t] IN
        /\ c.statuses = <<NotJson200>>
        /\ c.max_retries = MaxBudget
        /\ c.retries = 0 /\ c.sleeps = <<>>
        /\ c.outcome = ErrFormat

\* The failure kind of a finished call, read off what happened to it (not
\* off what it raised); "other" is a success or a failure outside the four
\* kinds.
FailureKind(c) ==
    IF ~Done(c) THEN "other"
    ELSE IF c.gate = "rejected" THEN "gate rejection"
    ELSE IF ~use_oauth /\ RefreshFailed(c) THEN "token refresh failed"
    ELSE IF Attempted(c) /\ c.statuses[Len(c.statuses)] = NotJson200
    THEN "malformed response"
    ELSE IF c.retries > c.max_retries THEN "budget exhausted"
    ELSE "other"

\* C17: two finished calls that failed in one of the four kinds surface the
\* same outcome if and only if they failed in the same kind; in particular
\* two calls that exhausted their budget surface the same outcome, whether
\* the last failure was an error status or a network failure.
C17_OneOutcomePerFailureKind ==
    \A t, u \in Threads :
        LET kt == FailureKind(call[t])
            ku == FailureKind(call[u])
        IN  (kt # "other" /\ ku # "other")
                => (kt = ku <=> call[t].outcome = call[u].outcome)

\* A token value that is there: neither missing nor the empty string.
Present(tok) == tok # None /\ tok # Empty

\* C18: for a non-OAuth client, startup with the access token or the
\* refresh token missing from the keyring ends in exit and no call is ever
\* entered; while the server is serving, whatever requests and refreshes
\* (complete or failed) have run, both in-memory tokens and
\* both stored tokens are present, and every Authtoken the client put on
\* an attempt was a present token.
C18_NeverServesWithoutTokens ==
    /\ (phase = "serving" /\ ~use_oauth)
           => /\ Present(get_tokens[1]) /\ Present(get_tokens[2])
              /\ Present(keyring.access_token) /\ Present(keyring.refresh_token)
    /\ (phase # "startup" /\ ~use_oauth
            /\ (keyring.access_token = None \/ keyring.refresh_token = None))
           => phase = "exited"
    /\ phase # "serving" => \A t \in Threads : call[t] = IdleCall
    /\ \A t \in Threads :
           LET c == call[t] IN
           DefaultAuthtoken(c)
               => \A i \in 1 .. Len(c.sent) : Present(c.sent[i]["Authtoken"])

\* A refresh was stopped by a failed keyring write of the refresh token;
\* the server still holds two tokens.
C18_Witness ==
    /\ phase = "serving" /\ ~use_oauth
    /\ \E t \in Threads :
           /\ Done(call[t]) /\ call[t].storeFailed
           /\ call[t].read = <<AccessTok(1), RefreshTok(1)>>
    /\ get_tokens = <<AccessTok(2), RefreshTok(1)>>

\* C19: when a keyring write failed during set_tokens(a, r), the pair in
\* memory is (a, r) all the same, so get_tokens() returns it.
C19_MemoryUpdatedDespiteStoreFailure ==
    \A t \in Threads :
        LET c == call[t] IN
        c.storeFailed => get_tokens = c.new

\* A value of the environment or of the configuration that is set.
IsSet(v) == v # Unset /\ v # ""

\* Validity of a ServerConfig.
ValidConfig(cfg) ==
    /\ cfg.transport_mode \in {"stdio", "streamable-http", "sse"}
    /\ cfg.transport_mode # "stdio"
           => IsSet(cfg.host) /\ cfg.port.set /\ cfg.port.n > 0 /\ IsSet(cfg.path)
    /\ cfg.use_oauth
           => /\ IsSet(cfg.oauth_authorization_endpoint)
              /\ IsSet(cfg.oauth_token_endpoint)
              /\ IsSet(cfg.oauth_client_id)
              /\ IsSet(cfg.oauth_client_secret)
              /\ IsSet(cfg.oauth_jwks_uri)

\* An environment that gives a transport mode of the enum, for a non-stdio
\* mode a host, a non-zero numeric port and a path, and with USE_OAUTH on
\* the five OAuth settings.
CompleteEnv(e) ==
    /\ e.MCP_TRANSPORT_MODE \in {"stdio", "streamable-http", "sse"}
    /\ e.MCP_TRANSPORT_MODE # "stdio"
           => /\ IsSet(e.MCP_HOST) /\ IsSet(e.MCP_PATH)
              /\ e.MCP_PORT.present /\ ~int_raises(e.MCP_PORT.value)
              /\ int(e.MCP_PORT.value) > 0
    /\ e.USE_OAUTH \in {"true", "True"}
           => /\ IsSet(e.OAUTH_AUTHORIZATION_ENDPOINT)
              /\ IsSet(e.OAUTH_TOKEN_ENDPOINT)
              /\ IsSet(e.OAUTH_CLIENT_ID)
              /\ IsSet(e.OAUTH_CLIENT_SECRET)
              /\ IsSet(e.OAUTH_JWKS_URI)

\* C20: every ServerConfig that came out of its constructor is valid; a
\* configuration returned by load_config is such an object and carries the
\* values of the environment; and on an environment that is invalid or
\* incomplete load_config has exited.
C20_OnlyValidConfig ==
    /\ config.constructed => ValidConfig(config.value)
    /\ config.state = "loaded"
           => /\ config.constructed
              /\ config.value.transport_mode = env.MCP_TRANSPORT_MODE
              /\ config.value.host = env.MCP_HOST
              /\ config.value.path = env.MCP_PATH
              /\ config.value.use_oauth <=> env.USE_OAUTH \in {"true", "True"}
    /\ (config.state # "unloaded" /\ ~CompleteEnv(env))
           => config.state = "exited"

\* An OAuth configuration over sse was loaded.
C20_Witness ==
    /\ config.state = "loaded"
    /\ config.value.transport_mode = "sse"
    /\ config.value.port = PortOf(80)
    /\ config.value.use_oauth
    /\ env.USE_OAUTH = "True"
    /\ config.value.oauth_required_scopes = <<<<"a">>, <<"b">>>>

\* The name of the credential header of the client, and of the other one.
CredentialHeader == IF use_oauth THEN "Authorization" ELSE "Authtoken"
OtherCredentialHeader == IF use_oauth THEN "Authtoken" ELSE "Authorization"

\* C21: the headers of every attempt hold Accept: application/json, the
\* credential header of the client's mode (Authtoken = the in-memory access
\* token when the attempt is issued, Authorization = the inbound value
\* as it came) and not the one of the other mode; every caller entry is in
\* them with the caller's value, replacing a default of the same name; and
\* nothing else is in them but the Content-Type of a serialized body.
C21_AttemptHeaders ==
    \A t \in Threads :
        LET c == call[t] IN
        /\ \A i \in 1 .. Len(c.sent) :
               LET h == c.sent[i] IN
               /\ {"Accept", CredentialHeader} \subseteq DOMAIN h
               /\ DOMAIN h \subseteq {"Accept", CredentialHeader, "Content-Type"}
                                      \cup DOMAIN c.headers
               /\ OtherCredentialHeader \in DOMAIN h
                      => OtherCredentialHeader \in DOMAIN c.headers
               /\ \A k \in DOMAIN c.headers : h[k] = c.headers[k]
               /\ "Accept" \notin DOMAIN c.headers => h["Accept"] = JSON
               /\ (use_oauth /\ "Authorization" \notin DOMAIN c.headers)
                      => /\ c.auth_header.present
                         /\ h["Authorization"] = c.auth_header.value
        /\ (c.pc = "attempt" /\ DefaultAuthtoken(c))
               => c.request_headers["Authtoken"] = get_tokens[1]

\* A non-OAuth attempt went out with the caller's Authtoken in place of the
\* client's and with the default Accept.
C21_Witness ==
    \E t \in Threads :
        LET c == call[t] IN
        /\ ~use_oauth
        /\ c.headers = [x \in {"Authtoken"} |-> <<"X", 0>>]
        /\ Len(c.sent) = 1
        /\ c.sent[1]["Authtoken"] = <<"X", 0>>
        /\ c.sent[1]["Accept"] = JSON
        /\ get_tokens[1] = AccessTok(1)

\* C22: get_job_detail never ends with an exception: when the API client
\* raised, the result is a ToolError carrying the message of that error;
\* when the body has no job for the id, it is a ToolError carrying
\* "No job found with ID: <job_id>"; a value is returned only for a body
\* with a job.
C22_ToolErrorsAreResults ==
    /\ tool.result.kind \in {"none", "value", "ToolError"}
    /\ tool.result.kind # "none"
           => /\ tool.outcome \in RequestOutcomes
              /\ tool.result.kind = "value"
                     <=> (tool.outcome = ReturnedJson /\ tool.body = "one_job")
              /\ tool.outcome \notin {ReturnedJson, ReturnedNone}
                     => tool.result = ToolError(tool.outcome)
              /\ (tool.outcome = ReturnedJson
                     /\ tool.body \in {"no_jobs_key", "empty_jobs"})
                     => tool.result = ToolError(NoJobFound(tool.job_id))

\* The backend knows no job 99999999.
C22_Witness ==
    /\ tool.job_id = 99999999
    /\ tool.outcome = ReturnedJson
    /\ tool.body = "empty_jobs"
    /\ tool.result.kind = "ToolError"
    /\ tool.result.error = <<"No job found with ID: ", 99999999>>

\* C23: the attempt re-issued after a 401 and a successful refresh has the
\* headers of the attempt that got the 401, the credential header apart:
\* the same names and, for every other name, the same value; for a dict
\* body it has a Content-Type.
C23_ReissuedSameRequest ==
    \A t \in Threads :
        LET c == call[t] IN
        \A i \in 2 .. Len(c.sent) :
            c.statuses[i - 1].status = 401
                => /\ DOMAIN c.sent[i] = DOMAIN c.sent[i - 1]
                   /\ \A k \in DOMAIN c.sent[i] \cap DOMAIN c.sent[i - 1] :
                          k # CredentialHeader => c.sent[i][k] = c.sent[i - 1][k]
                   /\ c.data = "dict" => "Content-Type" \in DOMAIN c.sent[i]

\* How many answers so far were a 401 followed by a refresh that returned
\* True.
Refreshed401s(c) == Len(SelectSeq(c.results, LAMBDA r : r))

\* C24: a 401 answered by a successful refresh leaves the retry counter as
\* it was and adds no sleep: the counter is the number of non-401 failures,
\* there is one sleep per counted failure within the budget, and a call
\* gives up on a non-401 failure only at the (max_retries + 1)-th of them,
\* however many 401s it saw.
C24_RefreshTakesNoRetrySlot ==
    \A t \in Threads :
        LET c == call[t]
            n == Len(c.statuses)
        IN
        /\ c.retries = CountRetryable(c.statuses)
        /\ Len(c.sleeps) = (IF c.retries > c.max_retries
                            THEN c.max_retries ELSE c.retries)
        /\ \A k \in 1 .. Len(c.sleeps) :
               c.sleeps[k] = c.retry_delay * 2 ^ (k - 1)
        /\ (Done(c) /\ n >= 1 /\ c.outcome \in TransientBackendErrors
                /\ c.statuses[n].status # 401)
               => CountRetryable(c.statuses) = c.max_retries + 1
        /\ n = Refreshed401s(c) + CountRetryable(c.statuses)
                 + (IF Done(c) /\ n >= 1 /\ c.retries <= c.max_retries
                    THEN 1 ELSE 0)
                 + (IF Refreshing(c) THEN 1 ELSE 0)

\* After a refreshed 401 the call still retried max_retries = 2 failures
\* and then succeeded.
C24_Witness ==
    \E t \in Threads :
        LET c == call[t] IN
        /\ c.max_retries = DefaultMaxRetries /\ c.retry_delay = 1
        /\ c.statuses = <<Unauthorized, ServerError, ServerError, Ok200>>
        /\ c.sleeps = <<1, 2>>
        /\ c.results = <<TRUE>>
        /\ c.outcome = ReturnedJson

\* The thread is inside AuthService.set_tokens.
InSetTokens(c) ==
    c.pc \in {"set_access", "mem_access", "set_refresh", "mem_refresh"}

\* C25: for a non-OAuth client, whenever no thread is inside set_tokens the
\* pair in memory is the pair in the keyring.
C25_MemoryEqualsStore ==
    (phase = "serving" /\ ~use_oauth
        /\ \A t \in Threads : ~InSetTokens(call[t]))
        => get_tokens = StoredPair

\* C26: once load_config has run on an environment whose transport mode is
\* stdio, whatever MCP_HOST, MCP_PORT and MCP_PATH are, it has returned a
\* ServerConfig with transport mode stdio and has not exited.
C26_StdioConfigLoads ==
    (config.state # "unloaded" /\ env.MCP_TRANSPORT_MODE = "stdio")
        => /\ config.state = "loaded"
           /\ config.value.transport_mode = "stdio"

\* The last refresh of the call called set_tokens and set_tokens is over
\* (it returned or it raised).
SetTokensOver(c) ==
    /\ c.renews # <<>>
    /\ c.renews[Len(c.renews)] = "ok"
    /\ Len(c.results) = Len(c.renews)

\* C27: when set_tokens(a, r) is over, having returned or raised, the pair
\* in memory and the pair in the keyring are each either the pair from
\* before the call or (a, r).
C27_SetTokensAllOrNothing ==
    \A t \in Threads :
        LET c == call[t] IN
        SetTokensOver(c)
            => /\ get_tokens \in {c.read, c.new}
               /\ StoredPair \in {c.read, c.new}

\* The outcomes of request that are exceptions.
RaisedOutcomes == RequestOutcomes \ {ReturnedJson, ReturnedNone}

\* C28: a call that is over has returned the decoded body of a success
\* answer or has raised; it has not fallen out of the attempt loop with
\* None, because the loop condition holds whenever it is evaluated.
C28_NeverReturnsNone ==
    \A t \in Threads :
        LET c == call[t]
            n == Len(c.statuses)
        IN
        /\ c.outcome # ReturnedNone
        /\ Done(c)
               => /\ c.outcome \in {ReturnedJson} \cup RaisedOutcomes
                  /\ c.outcome = ReturnedJson <=> (n >= 1 /\ c.statuses[n] = Ok200)
        /\ c.pc \in {"attempt", "rebuild"} \cup {"refresh", "renew"}
               => c.retries <= c.max_retries

\* A call with max_retries = 0 ended on its first failure, with the
\* counter above the budget, by raising.
C28_Witness ==
    \E t \in Threads :
        LET c == call[t] IN
        /\ Done(c)
        /\ c.max_retries = 0 /\ c.retries = 1
        /\ c.statuses = <<ServerError>>
        /\ c.outcome \in RaisedOutcomes

\* No attempt of the call was answered 401.
No401(c) == \A i \in 1 .. Len(c.statuses) : c.statuses[i].status # 401

\* C29: while and after a call in which no attempt was answered 401, and
\* while and after any call of an OAuth client, the pair in memory and the
\* keyring entries access_token, refresh_token and server_secret are what
\* they were when the call was entered, and the call started no refresh.
C29_CallLeavesCredentialsAlone ==
    \A t \in Threads :
        LET c == call[t] IN
        (c.pc # "idle" /\ (No401(c) \/ use_oauth))
            => /\ get_tokens = c.tokens0
               /\ keyring = c.keyring0
               /\ c.nRefresh = 0 /\ c.renews = <<>>

\* A non-OAuth call that exhausted its retries on error statuses, after an
\* earlier call had refreshed the pair.
C29_Witness ==
    \E t \in Threads :
        LET c == call[t] IN
        /\ ~use_oauth /\ Done(c)
        /\ c.statuses = <<ServerError, NetworkError>>
        /\ c.outcome = ErrTryLater
        /\ c.tokens0 = <<AccessTok(2), RefreshTok(2)>>
        /\ get_tokens = c.tokens0
        /\ keyring.access_token = AccessTok(2)

\* The call evaluated the third conjunct of line 104, the call of
\* auth_service.is_client_token_valid().
GateEvaluated(c) == c.gate \in {"accepted", "rejected", "error"}

\* C30: whatever the letter case of USE_OAUTH, a call evaluates the
\* shared-secret gate if and only if the client is a non-OAuth client and
\* the transport is not stdio; is_client_token_valid is not invoked on an
\* OAuth client.
C30_GateModeAgrees ==
    \A t \in Threads :
        LET c == call[t] IN
        c.pc # "idle"
            => /\ GateEvaluated(c)
                      <=> (~use_oauth /\ env.MCP_TRANSPORT_MODE # "stdio")
               /\ use_oauth => c.outcome # ErrAttribute

====
